---- MODULE Spec2Model ----
(***************************************************************************)
(* Recommendation ensemble, sustainability re-ranking and counterfactual   *)
(* rank-diff engine of the tourism recommender.                            *)
(*                                                                         *)
(* Numbers.  The program computes with floats; the model computes the same *)
(* expressions exactly.  A sustainability score is an integer 0..10, a     *)
(* sustainability weight is an integer number of tenths (3 is 0.3), an     *)
(* ensemble weight is a reduced fraction <<num, den>>.  Scores that are    *)
(* only compared with each other are kept as integer numerators over a     *)
(* common positive denominator.  Cosine similarities and the sigmoid are   *)
(* fixed-point values.                                                     *)
(***************************************************************************)
EXTENDS Integers, Sequences, FiniteSets, TLC

VARIABLES
    disk,        \* data/processed: the pickled matrix, destinations, users
    argsort_tie, \* how this numpy build orders equal keys in np.argsort
    hybrid,      \* the HybridRecommender object
    subs,        \* the base recommender objects, by name
    explainer,   \* the CounterfactualExplainer object
    call         \* the operation in progress or just finished, with its result

vars == <<disk, argsort_tie, hybrid, subs, explainer, call>>

None == "None"

-----------------------------------------------------------------------------
(* Bounds of the model *)

NumUsers == 2
NumDests == 4
MaxHistory == 1
MaxN == 2
MaxRecommenders == 2
MaxLen == 5

Users == 1..NumUsers
Dests == 1..NumDests

(* Program constants *)

TopSimilarUsers == 20
CounterfactualWindow == 20

-----------------------------------------------------------------------------
(* Arithmetic helpers *)

RECURSIVE SumOver(_, _)
SumOver(S, f) ==
    IF S = {} THEN 0
    ELSE LET x == CHOOSE y \in S : TRUE IN f[x] + SumOver(S \ {x}, f)

RECURSIVE Gcd(_, _)
Gcd(a, b) == IF b = 0 THEN a ELSE Gcd(b, a % b)

Frac(n, d) == LET g == Gcd(n, d) IN <<n \div g, d \div g>>
FracAdd(p, q) == Frac(p[1] * q[2] + q[1] * p[2], p[2] * q[2])
FracDiv(p, q) == Frac(p[1] * q[2], p[2] * q[1])

RECURSIVE FracSum(_)
FracSum(s) == IF s = <<>> THEN <<0, 1>> ELSE FracAdd(Head(s), FracSum(Tail(s)))

SeqSet(s) == {s[i] : i \in DOMAIN s}
Prefix(s, n) == IF n <= 0 THEN <<>> ELSE SubSeq(s, 1, IF n < Len(s) THEN n ELSE Len(s))
IsInjective(s) == \A i, j \in DOMAIN s : s[i] = s[j] => i = j

(* The value of an expression, computed once: One({F(v) : v \in {e}})
   evaluates e a single time however often F uses its argument. *)
One(S) == CHOOSE x \in S : TRUE

(* a sort that keeps one item per key, as a dictionary keyed by score does *)
SortedByDistinctKey(items, key) ==
    LET n == Len(items)
        firsts == {i \in 1..n : \A j \in 1..(i - 1) : key[j] # key[i]}
        At(k) == CHOOSE i \in firsts : Cardinality({j \in firsts : key[j] > key[i]}) = k - 1
    IN [k \in 1..Cardinality(firsts) |-> items[At(k)]]

(* sorted(items, key=...) without reverse=True *)
SortedAscendingOf(items, key) ==
    LET n == Len(items)
        Before(i, j) == key[i] < key[j] \/ (key[i] = key[j] /\ i < j)
        At(k) == CHOOSE i \in 1..n : Cardinality({j \in 1..n : Before(j, i)}) = k - 1
    IN [k \in 1..n |-> items[At(k)]]

(* sorted(items, key=...)[::-1]: descending by key, equal keys in the
   reverse of their input order *)
ReverseOfSortedOf(items, key) ==
    LET n == Len(items)
        Before(i, j) == key[i] > key[j] \/ (key[i] = key[j] /\ i > j)
        At(k) == CHOOSE i \in 1..n : Cardinality({j \in 1..n : Before(j, i)}) = k - 1
    IN [k \in 1..n |-> items[At(k)]]

(* sorted(items, key=..., reverse=True): descending by key, equal keys keep
   their input order.  key is a function on DOMAIN items. *)
SortedReverseOf(items, key) ==
    LET n == Len(items)
        Before(i, j) == key[i] > key[j] \/ (key[i] = key[j] /\ i < j)
        At(k) == CHOOSE i \in 1..n : Cardinality({j \in 1..n : Before(j, i)}) = k - 1
    IN [k \in 1..n |-> items[At(k)]]

SortedReverse(items, key) ==
    One({SortedReverseOf(it, ky) : it \in {items}, ky \in {key}})

-----------------------------------------------------------------------------
(* Destinations table: a sequence of rows.  A row is looked up by its
   destination_id column, as the pandas filters do. *)

Row(d, overall, carbon) ==
    [destination_id |-> d, overall_sustainability_score |-> overall,
     carbon_footprint_score |-> carbon]

DestinationColumns ==
    {"destination_id", "overall_sustainability_score", "carbon_footprint_score"}

RowsOf(table, dest_id) == {r \in DOMAIN table : table[r].destination_id = dest_id}

(* table[table["destination_id"] == dest_id].iloc[0] *)
FirstRow(table, dest_id) ==
    LET rows == RowsOf(table, dest_id)
    IN table[CHOOSE r \in rows : \A q \in rows : r <= q]

(* users.columns: the columns of the rows *)
UserColumnsOf(table) == UNION {DOMAIN table[r] : r \in DOMAIN table}

(* A recommendation dictionary *)
Rec(d, s) == [destination_id |-> d, sustainability_score |-> s]

DestIds(recs) == [i \in DOMAIN recs |-> recs[i].destination_id]

-----------------------------------------------------------------------------
(* SustainabilityScorer *)

(* a lookup that finds no row for any id *)
get_score_of_no_row(table, dest_id) == 0

(* a lookup that reads the carbon footprint column *)
get_carbon_footprint_score(table, dest_id) ==
    IF RowsOf(table, dest_id) = {} THEN 0
    ELSE FirstRow(table, dest_id).carbon_footprint_score

get_sustainability_score(table, dest_id) ==
    IF RowsOf(table, dest_id) = {} THEN 0
    ELSE FirstRow(table, dest_id).overall_sustainability_score

(* weight * base_score + (1 - weight) * sustainability_score *)
SwappedWeightedScore(table, rec, i, n, weight) ==
    LET base_num == IF n > 1 THEN n - i ELSE 1
        sust == get_sustainability_score(table, rec.destination_id)
    IN weight * base_num * 10 + (10 - weight) * sust * n

(* weighted_score of the recommendation at 0-based position i of n, as a
   numerator over 100 * n. *)
ScorerWeightedScore(table, rec, i, n, weight) ==
    LET base_num == IF n > 1 THEN n - i ELSE 1
        sust == get_sustainability_score(table, rec.destination_id)
    IN (10 - weight) * base_num * 10 + weight * sust * n

(* a re-ranker that also drops the candidates without a positive
   sustainability score *)
apply_weighting_dropping_unscored(table, recommendations, weight) ==
    LET Scored(rec) == get_sustainability_score(table, rec.destination_id) > 0
        kept == SelectSeq(recommendations, Scored)
        n_recs == Len(kept)
        weighted == [k \in 1..n_recs |->
                        ScorerWeightedScore(table, kept[k], k - 1, n_recs, weight)]
    IN SortedReverse(kept, weighted)

apply_sustainability_weighting(table, recommendations, weight) ==
    LET n_recs == Len(recommendations)
        weighted == [k \in 1..n_recs |->
                        ScorerWeightedScore(table, recommendations[k], k - 1, n_recs, weight)]
    IN SortedReverse(recommendations, weighted)

-----------------------------------------------------------------------------
(* SustainabilityWeighting *)

Schemes == {"linear", "quadratic", "sigmoid", "threshold"}

(* 1 / (1 + exp(-10 * (x - 0.5))) for x = s / 10, in millionths *)
SigmoidTable ==
    <<6693, 17986, 47426, 119203, 268941, 500000,
      731059, 880797, 952574, 982014, 993307>>

DefaultThreshold == 7

(* The denominator the scheme's sustainability factor is expressed over *)
FactorDen(scheme, threshold) ==
    CASE scheme = "linear" -> 10
      [] scheme = "quadratic" -> 100
      [] scheme = "sigmoid" -> 1000000
      [] scheme = "threshold" -> 100 * threshold

_linear_weighting(sust) == sust

_quadratic_weighting(sust) == sust * sust

(* the exponent 10 * (x - 0.5) itself, in millionths *)
_sigmoid_exponent(sust) == (sust - 5) * 1000000

_sigmoid_weighting(sust) == SigmoidTable[sust + 1]

(* penalty = (threshold - s) / threshold; factor = s * (1 - penalty * weight) *)
_threshold_weighting(sust, weight, threshold) ==
    IF sust < threshold
    THEN sust * (10 * threshold - (threshold - sust) * weight)
    ELSE sust * 10 * threshold

SustainabilityFactor(scheme, sust, weight, threshold) ==
    CASE scheme = "linear" -> _linear_weighting(sust)
      [] scheme = "quadratic" -> _quadratic_weighting(sust)
      [] scheme = "sigmoid" -> _sigmoid_weighting(sust)
      [] scheme = "threshold" -> _threshold_weighting(sust, weight, threshold)

(* (1 - weight) * base + weight * factor for the item at 0-based position i
   of n, as a numerator over 10 * n * FactorDen. *)
WeightingWeightedScore(scheme, i, n, sust, weight, threshold) ==
    (10 - weight) * (n - i) * FactorDen(scheme, threshold)
        + weight * SustainabilityFactor(scheme, sust, weight, threshold) * n

(* rec["sustainability_score"] / 10 if "sustainability_score" in rec else 0.5 *)
RecSustainability(rec) ==
    IF "sustainability_score" \in DOMAIN rec THEN rec.sustainability_score ELSE 5

apply_weighting_to_recommendations(recommendations, scheme, weight, threshold) ==
    IF recommendations = <<>> THEN [error |-> None, result |-> <<>>]
    ELSE IF scheme \notin Schemes THEN [error |-> "ValueError", result |-> <<>>]
    ELSE LET n_recs == Len(recommendations)
             weighted == [k \in 1..n_recs |->
                 WeightingWeightedScore(scheme, k - 1, n_recs,
                     RecSustainability(recommendations[k]), weight, threshold)]
         IN [error |-> None, result |-> SortedReverse(recommendations, weighted)]

(* apply_weighting(base_scores, sustainability_scores, scheme, weight,
   threshold=...): scores in tenths come back as numerators over
   WeightedDen(scheme, threshold); zip stops at the shorter list. *)
WeightedDen(scheme, threshold) == 100 * FactorDen(scheme, threshold)

apply_weighting(base_scores, sustainability_scores, scheme, weight, threshold) ==
    IF scheme \notin Schemes THEN [error |-> "ValueError", result |-> <<>>]
    ELSE LET n == IF Len(base_scores) < Len(sustainability_scores)
                  THEN Len(base_scores) ELSE Len(sustainability_scores)
         IN [error |-> None,
             result |-> [k \in 1..n |->
                 WeightingWeightedScore(scheme, 10 - base_scores[k], 10,
                     sustainability_scores[k], weight, threshold)]]

-----------------------------------------------------------------------------
(* data/processed as DataProcessor.process_all leaves it *)

ColumnMin(table, col) == CHOOSE x \in {table[r][col] : r \in DOMAIN table} :
                             \A r \in DOMAIN table : x <= table[r][col]
ColumnMax(table, col) == CHOOSE x \in {table[r][col] : r \in DOMAIN table} :
                             \A r \in DOMAIN table : x >= table[r][col]

(* MinMaxScaler: (x - min) / (max - min) in tenths, a constant column
   scaled to 0 *)
MinMax(table, col, r) ==
    LET lo == ColumnMin(table, col)
        hi == ColumnMax(table, col)
    IN IF hi = lo THEN 0 ELSE ((table[r][col] - lo) * 10) \div (hi - lo)

extract_destination_features(table) ==
    [r \in DOMAIN table |->
        <<MinMax(table, "carbon_footprint_score", r),
          MinMax(table, "overall_sustainability_score", r)>>]

(* sklearn cosine_similarity of two rows, in hundredths; a zero
   row has similarity 0 with every row. *)
Dot(a, b) == SumOver(DOMAIN a, [i \in DOMAIN a |-> a[i] * b[i]])

Cosine(a, b) ==
    LET na == Dot(a, a)
        nb == Dot(b, b)
        ab == Dot(a, b)
        x == (ab * ab * 10000) \div (na * nb)
    IN IF na = 0 \/ nb = 0 THEN 0
       ELSE CHOOSE k \in 0..100 : k * k <= x /\ (k + 1) * (k + 1) > x

cosine_similarity(X) == [i \in DOMAIN X |-> [j \in DOMAIN X |-> Cosine(X[i], X[j])]]

Transpose(matrix) == [d \in Dests |-> [u \in DOMAIN matrix |-> matrix[u][d]]]

-----------------------------------------------------------------------------
(* Base recommenders *)

Kinds == {"PopularityRecommender", "ContentBasedRecommender", "UserBasedCF", "ItemBasedCF"}

Ok(recs) == [error |-> None, result |-> recs]
Raise(e) == [error |-> e, result |-> <<>>]

(* np.argsort(-scores): indices by descending score.  The default sort kind
   is not stable: which of two equal scores comes first is fixed by the
   build, not by the program. *)
ArgSortDescOf(scores, tie) ==
    LET idx == DOMAIN scores
        Before(i, j) == \/ scores[i] > scores[j]
                        \/ scores[i] = scores[j] /\ IF tie = "ascending" THEN i < j ELSE i > j
        At(k) == CHOOSE i \in idx : Cardinality({j \in idx : Before(j, i)}) = k - 1
    IN [k \in 1..Cardinality(idx) |-> At(k)]

ArgSortDesc(scores, tie) == One({ArgSortDescOf(sc, tie) : sc \in {scores}})

(* dest_indices[:n] without the visited mask *)
TopOfAll(dest_indices, row, n, exclude_visited) == dest_indices

(* dest_indices[:n] taken before the visited mask *)
TruncatedThenUnvisited(dest_indices, row, n, exclude_visited) ==
    LET Unvisited(d) == ~(row[d] > 0)
    IN IF exclude_visited THEN SelectSeq(Prefix(dest_indices, n), Unvisited)
       ELSE dest_indices

(* dest_indices[~visited[dest_indices]] when exclude_visited, then [:n] *)
TopUnvisitedOf(dest_indices, row, n, exclude_visited) ==
    LET Unvisited(d) == ~(row[d] > 0)
    IN IF exclude_visited THEN SelectSeq(dest_indices, Unvisited) ELSE dest_indices

TopUnvisited(dest_indices, row, n, exclude_visited) ==
    One({Prefix(kept, n) :
            kept \in {TopUnvisitedOf(dest_indices, row, n, exclude_visited)}})

_format_recommendations(table, dest_indices) ==
    IF \E k \in DOMAIN dest_indices : RowsOf(table, dest_indices[k]) = {}
    THEN Raise("IndexError")
    ELSE Ok([k \in DOMAIN dest_indices |->
                Rec(dest_indices[k],
                    FirstRow(table, dest_indices[k]).overall_sustainability_score)])

PopularityFit(matrix) ==
    [d \in DOMAIN matrix[1] |-> SumOver(DOMAIN matrix, [u \in DOMAIN matrix |-> matrix[u][d]])]

PopularityRecommend(self, user_id, n, exclude_visited, tie) ==
    _format_recommendations(self.destinations,
        TopUnvisited(ArgSortDesc(self.popularity_scores, tie),
                     self.interaction_matrix[user_id], n, exclude_visited))

(* The recommender ContentBasedRecommender builds for a user without
   history: PopularityRecommender(), load_data(), fit() *)
FallbackPopularity(data) ==
    [interaction_matrix |-> data.matrix, destinations |-> data.destinations,
     popularity_scores |-> PopularityFit(data.matrix)]

ContentRecommend(self, data, user_id, n, exclude_visited, tie) ==
    LET row == self.interaction_matrix[user_id]
        visited_indices == {d \in Dests : row[d] > 0}
        similarity_scores ==
            [d \in Dests |->
                SumOver(visited_indices,
                        [i \in visited_indices |-> self.feature_similarity[i][d]])]
    IN IF visited_indices = {}
       THEN PopularityRecommend(FallbackPopularity(data), user_id, n, exclude_visited, tie)
       ELSE _format_recommendations(self.destinations,
                TopUnvisited(ArgSortDesc(similarity_scores, tie), row, n, exclude_visited))

(* self.similarity_matrix[:, user_idx] = 0: the user's column as well *)
UserSimilarityColumnZeroed(similarity_matrix, user_id) ==
    [u \in DOMAIN similarity_matrix |->
        [similarity_matrix[u] EXCEPT ![user_id] = 0]]

(* user_similarities = self.similarity_matrix[user_idx] is a view, so
   user_similarities[user_idx] = 0 writes into the fitted matrix. *)
UserSimilarityAfter(similarity_matrix, user_id) ==
    [similarity_matrix EXCEPT ![user_id][user_id] = 0]

UserCFScoresOf(user_similarities, matrix, tie) ==
    LET similar_users == SeqSet(Prefix(ArgSortDesc(user_similarities, tie), TopSimilarUsers))
    IN One({[d \in Dests |->
                SumOver(used, [v \in used |-> user_similarities[v] * matrix[v][d]])] :
            used \in {{v \in similar_users : user_similarities[v] > 0}}})

UserCFScores(self, user_id, tie) ==
    One({UserCFScoresOf(row, self.interaction_matrix, tie) :
            row \in {UserSimilarityAfter(self.similarity_matrix, user_id)[user_id]}})

ItemCFScores(self, user_id) ==
    LET visited == {i \in Dests : self.interaction_matrix[user_id][i] > 0}
    IN [d \in Dests |-> SumOver(visited, [i \in visited |-> self.similarity_matrix[i][d]])]

CFRecommend(self, method, user_id, n, exclude_visited, tie) ==
    LET scores == IF method = "user" THEN UserCFScores(self, user_id, tie)
                  ELSE ItemCFScores(self, user_id)
    IN _format_recommendations(self.destinations,
           TopUnvisited(ArgSortDesc(scores, tie),
                        self.interaction_matrix[user_id], n, exclude_visited))

(* recommender.recommend(user_id, n, exclude_visited) of the base
   recommender named kind.  _get_user_index raises IndexError for a user
   that is not in user_ids (or when nothing is loaded); an unfitted model
   raises TypeError where its fitted attribute is first used. *)
NoHistory(self, user_id) == \A d \in Dests : ~(self.interaction_matrix[user_id][d] > 0)

SubRecommend(kind, self, data, user_id, n, exclude_visited, tie) ==
    IF user_id \notin DOMAIN self.interaction_matrix THEN Raise("IndexError")
    ELSE IF ~self.fitted /\ ~(kind = "ContentBasedRecommender" /\ NoHistory(self, user_id))
    THEN Raise("TypeError")
    ELSE CASE kind = "PopularityRecommender" ->
                  PopularityRecommend(self, user_id, n, exclude_visited, tie)
           [] kind = "ContentBasedRecommender" ->
                  ContentRecommend(self, data, user_id, n, exclude_visited, tie)
           [] kind = "UserBasedCF" ->
                  CFRecommend(self, "user", user_id, n, exclude_visited, tie)
           [] kind = "ItemBasedCF" ->
                  CFRecommend(self, "item", user_id, n, exclude_visited, tie)

(* What a recommend call leaves in the base recommender: only the
   user-based CF writes, and only once it has reached its similarity row. *)
SubAfterRecommend(kind, self, user_id) ==
    IF kind = "UserBasedCF" /\ self.fitted /\ user_id \in DOMAIN self.interaction_matrix
    THEN [self EXCEPT !.similarity_matrix = UserSimilarityAfter(@, user_id)]
    ELSE self

-----------------------------------------------------------------------------
(* HybridRecommender *)

(* the weights as appended, without the division *)
RawWeightsKept(weights) == weights

(* self.weights.append(weight); self.weights = [w / total for w in self.weights] *)
NormalizeWeights(weights) ==
    LET total_weight == FracSum(weights)
    IN [i \in DOMAIN weights |-> FracDiv(weights[i], total_weight)]

add_recommender(self, recommender, weight) ==
    [self EXCEPT !.recommenders = Append(@, recommender),
                 !.weights = NormalizeWeights(Append(@, weight))]

RECURSIVE Flatten(_)
Flatten(lists) ==
    IF lists = <<>> THEN <<>> ELSE Head(lists) \o Flatten(Tail(lists))

(* the keys of all_recommendations in insertion order *)
RECURSIVE FirstSeen(_, _)
FirstSeen(ids, seen) ==
    IF ids = <<>> THEN <<>>
    ELSE IF Head(ids) \in seen THEN FirstSeen(Tail(ids), seen)
    ELSE <<Head(ids)>> \o FirstSeen(Tail(ids), seen \cup {Head(ids)})

RECURSIVE LcmOver(_, _)
LcmOver(S, f) ==
    IF S = {} THEN 1
    ELSE LET x == CHOOSE y \in S : TRUE
             rest == LcmOver(S \ {x}, f)
         IN (f[x] \div Gcd(f[x], rest)) * rest

(* weight * (1.0 - j / len(recs)) summed over the recommenders that list
   dest_id, as a numerator over FuseDen. *)
FuseDen(weights, lists) ==
    LcmOver(DOMAIN lists,
             [i \in DOMAIN lists |-> weights[i][2] * (IF Len(lists[i]) = 0 THEN 1 ELSE Len(lists[i]))])

(* the score with positions counted from -1: weight * (1.0 - (j - 1) / len(recs)) *)
FuseScoreFromMinusOne(weights, lists, den, dest_id) ==
    LET Term(i) ==
            LET L == Len(lists[i])
                at == {j \in 1..L : lists[i][j].destination_id = dest_id}
            IN SumOver(at, [j \in at |->
                   (weights[i][1] * (L - (j - 1) + 1) * den) \div (weights[i][2] * L)])
    IN SumOver(DOMAIN lists, [i \in DOMAIN lists |-> Term(i)])

FuseScore(weights, lists, den, dest_id) ==
    LET Term(i) ==
            LET L == Len(lists[i])
                at == {j \in 1..L : lists[i][j].destination_id = dest_id}
            IN SumOver(at, [j \in at |->
                   (weights[i][1] * (L - (j - 1)) * den) \div (weights[i][2] * L)])
    IN SumOver(DOMAIN lists, [i \in DOMAIN lists |-> Term(i)])

(* the "recommendation" stored with a key: the dictionary of the first
   recommender that listed it *)
FirstRecFor(all, dest_id) ==
    all[CHOOSE j \in DOMAIN all :
            /\ all[j].destination_id = dest_id
            /\ \A q \in DOMAIN all : all[q].destination_id = dest_id => j <= q]

(* the fused candidates sorted without reverse=True *)
FuseAscendingOf(weights, lists, all, keys, den) ==
    SortedAscendingOf([k \in DOMAIN keys |-> FirstRecFor(all, keys[k])],
                      [k \in DOMAIN keys |-> FuseScore(weights, lists, den, keys[k])])

(* sorted_recommendations: the fused candidates, best first *)
FuseOf(weights, lists, all, keys, den) ==
    SortedReverse([k \in DOMAIN keys |-> FirstRecFor(all, keys[k])],
                  [k \in DOMAIN keys |-> FuseScore(weights, lists, den, keys[k])])

Fuse(weights, lists) ==
    One({FuseOf(weights, lists, all, FirstSeen(DestIds(all), {}), den) :
            all \in {Flatten(lists)}, den \in {FuseDen(weights, lists)}})

(* the re-ranking step with a scorer that reads the hybrid's current
   destinations attribute *)
ApplyHybridSustainabilityOnOwnTable(self, top_recommendations) ==
    IF self.sustainability_weight > 0
    THEN IF ~self.scorer_loaded THEN Raise("AttributeError")
         ELSE Ok(apply_sustainability_weighting(self.destinations,
                     top_recommendations, self.sustainability_weight))
    ELSE Ok(top_recommendations)

(* lines 86-93: the re-ranking step that ends recommend *)
ApplyHybridSustainability(self, top_recommendations) ==
    IF self.sustainability_weight > 0
    THEN IF ~self.scorer_loaded THEN Raise("AttributeError")
         ELSE Ok(apply_sustainability_weighting(self.scorer_destinations,
                     top_recommendations, self.sustainability_weight))
    ELSE Ok(top_recommendations)

(* The first recommender of the list whose recommend raises, 0 if none *)
FirstFailure(outcomes) ==
    IF \A i \in DOMAIN outcomes : outcomes[i].error = None THEN 0
    ELSE CHOOSE i \in DOMAIN outcomes :
             /\ outcomes[i].error # None
             /\ \A j \in DOMAIN outcomes : outcomes[j].error # None => i <= j

(* HybridRecommender.recommend: the outcome, the fused top n it re-ranked,
   and the recommenders it invoked *)
HybridFinish(self, outcomes, n) ==
    LET Result(top_recommendations, final) ==
            [error |-> final.error, result |-> final.result,
             fused |-> top_recommendations,
             lists |-> [i \in DOMAIN outcomes |-> outcomes[i].result],
             invoked |-> SeqSet(self.recommenders),
             reranked |-> self.sustainability_weight > 0]
    IN One({Result(top, One({ApplyHybridSustainability(self, t) : t \in {top}})) :
            top \in {Prefix(Fuse(self.weights,
                                 [i \in DOMAIN outcomes |-> outcomes[i].result]), n)}})

HybridOutcome(self, outcomes, failed, n) ==
    IF failed # 0
    THEN [error |-> outcomes[failed].error, result |-> <<>>, fused |-> <<>>,
          lists |-> <<>>,
          invoked |-> {self.recommenders[i] : i \in 1..failed}, reranked |-> FALSE]
    ELSE HybridFinish(self, outcomes, n)

(* recommend without the check of lines 51-52 *)
RecommendUnchecked(self, sub, data, user_id, n, exclude_visited, tie) ==
    One({HybridOutcome(self, outcomes, FirstFailure(outcomes), n) :
         outcomes \in {[i \in DOMAIN self.recommenders |->
                           SubRecommend(self.recommenders[i], sub[self.recommenders[i]],
                                        data, user_id, n * 2, exclude_visited, tie)]}})

HybridRecommend(self, sub, data, user_id, n, exclude_visited, tie) ==
    IF self.recommenders = <<>>
    THEN [error |-> "ValueError", result |-> <<>>, fused |-> <<>>, lists |-> <<>>,
          invoked |-> {},
          reranked |-> FALSE]
    ELSE One({HybridOutcome(self, outcomes, FirstFailure(outcomes), n) :
              outcomes \in {[i \in DOMAIN self.recommenders |->
                                SubRecommend(self.recommenders[i], sub[self.recommenders[i]],
                                             data, user_id, n * 2, exclude_visited, tie)]}})

SubsAfterHybridRecommend(sub, invoked, user_id) ==
    [k \in Kinds |-> IF k \in invoked THEN SubAfterRecommend(k, sub[k], user_id) ELSE sub[k]]

-----------------------------------------------------------------------------
(* CounterfactualExplainer *)

(* the 1-based rank of dest_id in a list, 0 when the loop leaves it None *)
RankOf(recs, dest_id) ==
    IF \A k \in DOMAIN recs : recs[k].destination_id # dest_id THEN 0
    ELSE CHOOSE k \in DOMAIN recs :
             /\ recs[k].destination_id = dest_id
             /\ \A q \in DOMAIN recs : recs[q].destination_id = dest_id => k <= q

(* for i in range(lo, hi): the integers lo .. hi - 1 in order *)
Range(lo, hi) == [k \in 1..(IF hi > lo THEN hi - lo ELSE 0) |-> lo + k - 1]

(* lines 91-98: the names appended to moved_down, by destination id *)
MovedDown(current, counterfactual, current_rank, new_rank) ==
    IF new_rank # 0 /\ current_rank # new_rank /\ new_rank < current_rank
    THEN LET Kept(i) == i < Len(current)
             picked == SelectSeq(Range(new_rank - 1, current_rank - 1), Kept)
         IN [k \in DOMAIN picked |-> counterfactual[picked[k] + 1].destination_id]
    ELSE <<>>

(* lines 99-105: the names appended to moved_up, by destination id *)
MovedUp(current, counterfactual, current_rank, new_rank) ==
    IF new_rank # 0 /\ current_rank # new_rank /\ ~(new_rank < current_rank)
    THEN LET Kept(i) == i < Len(counterfactual)
             picked == SelectSeq(Range(current_rank, new_rank), Kept)
         IN [k \in DOMAIN picked |-> counterfactual[picked[k]].destination_id]
    ELSE <<>>

(* modified.loc[modified[key] == id, column] = target_value on a copy *)
SetColumn(table, key, id, column, target_value) ==
    [r \in DOMAIN table |->
        IF table[r][key] = id THEN [table[r] EXCEPT ![column] = target_value]
        ELSE table[r]]

(* The three factors a counterfactual may override *)
Factors(self) ==
    [sustainability_weight |-> self.sustainability_weight,
     destinations |-> self.destinations,
     users |-> self.users]

(* the report with rank_change taken as new rank minus current rank *)
ReportNewMinusCurrent(outcome, stage, error, after, written, reruns, invoked, current, counterfactual, current_rank, new_rank) ==
    [outcome |-> outcome, stage |-> stage, invoked |-> invoked, error |-> error,
     after |-> after, written |-> written,
     reruns |-> reruns, current |-> current, counterfactual |-> counterfactual,
     current_rank |-> current_rank, counterfactual_rank |-> new_rank,
     dropped_out |-> (outcome = "explanation" /\ new_rank = 0),
     rank_change |-> IF new_rank # 0 THEN new_rank - current_rank ELSE 0]

(* What a counterfactual leaves behind and reports.  outcome is
   "explanation", "error" (the error dictionary) or "raised"; stage is
   where the method ended: "check", "baseline", "perturb", "rerun", "diff". *)
Report(outcome, stage, error, after, written, reruns, invoked, current, counterfactual, current_rank, new_rank) ==
    [outcome |-> outcome, stage |-> stage, invoked |-> invoked, error |-> error,
     after |-> after, written |-> written,
     reruns |-> reruns, current |-> current, counterfactual |-> counterfactual,
     current_rank |-> current_rank, counterfactual_rank |-> new_rank,
     dropped_out |-> (outcome = "explanation" /\ new_rank = 0),
     rank_change |-> IF new_rank # 0 THEN current_rank - new_rank ELSE 0]

(* the override without the reset that follows the second run *)
PerturbWithoutReset(self, perturbed, factor, r1, r2, current_rank, dest_id) ==
    IF r2.error # None
    THEN Report("raised", "rerun", r2.error, perturbed, {factor}, 1, r1.invoked,
                r1.result, <<>>, current_rank, 0)
    ELSE Report("explanation", "diff", None, perturbed, {factor}, 1, r1.invoked,
                r1.result, r2.result,
                current_rank, RankOf(r2.result, dest_id))

(* lines 59-71, 170-182, 252-264: save the factor, set it, run recommend
   again, reset it; then look the target up again.  perturbed is the
   recommender with the factor set; r2 the outcome of the second run. *)
PerturbAndDiff(self, perturbed, factor, r1, r2, current_rank, dest_id) ==
    IF r2.error # None
    THEN Report("raised", "rerun", r2.error, perturbed, {factor}, 1, r1.invoked,
                r1.result, <<>>, current_rank, 0)
    ELSE Report("explanation", "diff", None, self, {factor}, 1, r1.invoked,
                r1.result, r2.result,
                current_rank, RankOf(r2.result, dest_id))

(* the explainer's own table: load_data() when none was given *)
ExplainerDestinations(self, data) ==
    IF self.loaded THEN self.destinations ELSE data.destinations

(* the method with the weight set before the baseline run is looked up *)
generate_with_early_override(ex, self, sub, data, user_id, dest_id, target_weight, tie) ==
    One({ IF r1.error # None
          THEN Report("raised", "baseline", r1.error, self, {}, 0, r1.invoked, <<>>, <<>>, 0, 0)
          ELSE IF RankOf(r1.result, dest_id) = 0
          THEN Report("error", "baseline", None,
                      [self EXCEPT !.sustainability_weight = target_weight],
                      {"sustainability_weight"}, 0, r1.invoked, r1.result, <<>>, 0, 0)
          ELSE One({ PerturbAndDiff(self,
                              [self EXCEPT !.sustainability_weight = target_weight],
                              "sustainability_weight", r1, r2,
                              RankOf(r1.result, dest_id), dest_id) :
                  r2 \in {HybridRecommend(
                              [self EXCEPT !.sustainability_weight = target_weight],
                              SubsAfterHybridRecommend(sub, r1.invoked, user_id),
                              data, user_id, CounterfactualWindow, TRUE, tie)} }) :
          r1 \in {HybridRecommend(self, sub, data, user_id, CounterfactualWindow, TRUE, tie)} })

generate_sustainability_counterfactual(ex, self, sub, data, user_id, dest_id, target_weight, tie) ==
    One({ IF r1.error # None
          THEN Report("raised", "baseline", r1.error, self, {}, 0, r1.invoked, <<>>, <<>>, 0, 0)
          ELSE IF RankOf(r1.result, dest_id) = 0
          THEN Report("error", "baseline", None, self, {}, 0, r1.invoked, r1.result, <<>>, 0, 0)
          ELSE One({ IF r2.error = None
                        /\ RowsOf(ExplainerDestinations(ex, data), dest_id) = {}
                     THEN Report("raised", "diff", "IndexError", self,
                                 {"sustainability_weight"}, 1, r1.invoked,
                                 r1.result, r2.result, RankOf(r1.result, dest_id),
                                 RankOf(r2.result, dest_id))
                     ELSE PerturbAndDiff(self,
                              [self EXCEPT !.sustainability_weight = target_weight],
                              "sustainability_weight", r1, r2,
                              RankOf(r1.result, dest_id), dest_id) :
                  r2 \in {HybridRecommend(
                              [self EXCEPT !.sustainability_weight = target_weight],
                              SubsAfterHybridRecommend(sub, r1.invoked, user_id),
                              data, user_id, CounterfactualWindow, TRUE, tie)} }) :
          r1 \in {HybridRecommend(self, sub, data, user_id, CounterfactualWindow, TRUE, tie)} })

generate_feature_counterfactual(ex, self, sub, data, user_id, dest_id, feature, target_value, tie) ==
    IF feature \notin DestinationColumns
    THEN Report("error", "check", None, self, {}, 0, {}, <<>>, <<>>, 0, 0)
    ELSE
    One({ IF r1.error # None
          THEN Report("raised", "baseline", r1.error, self, {}, 0, r1.invoked, <<>>, <<>>, 0, 0)
          ELSE IF RankOf(r1.result, dest_id) = 0
          THEN Report("error", "baseline", None, self, {}, 0, r1.invoked, r1.result, <<>>, 0, 0)
          ELSE IF RowsOf(ExplainerDestinations(ex, data), dest_id) = {}
          THEN Report("raised", "perturb", "IndexError", self, {}, 0, r1.invoked, r1.result, <<>>,
                      RankOf(r1.result, dest_id), 0)
          ELSE One({ PerturbAndDiff(self, perturbed, "destinations", r1,
                         HybridRecommend(perturbed,
                             SubsAfterHybridRecommend(sub, r1.invoked, user_id),
                             data, user_id, CounterfactualWindow, TRUE, tie),
                         RankOf(r1.result, dest_id), dest_id) :
                  perturbed \in {[self EXCEPT !.destinations =
                                     SetColumn(ExplainerDestinations(ex, data),
                                               "destination_id", dest_id,
                                               feature, target_value)]} }) :
          r1 \in {HybridRecommend(self, sub, data, user_id, CounterfactualWindow, TRUE, tie)} })

generate_user_counterfactual(self, sub, data, user_id, dest_id, user_feature, target_value, tie) ==
    One({ IF r1.error # None
          THEN Report("raised", "baseline", r1.error, self, {}, 0, r1.invoked, <<>>, <<>>, 0, 0)
          ELSE IF RankOf(r1.result, dest_id) = 0
          THEN Report("error", "baseline", None, self, {}, 0, r1.invoked, r1.result, <<>>, 0, 0)
          ELSE IF ~self.loaded
          THEN Report("raised", "perturb", "AttributeError", self, {}, 0, r1.invoked, r1.result, <<>>,
                      RankOf(r1.result, dest_id), 0)
          ELSE IF user_feature \notin UserColumnsOf(self.users)
          THEN Report("error", "check", None, self, {}, 0, r1.invoked, r1.result, <<>>, 0, 0)
          ELSE One({ PerturbAndDiff(self, perturbed, "users", r1,
                         HybridRecommend(perturbed,
                             SubsAfterHybridRecommend(sub, r1.invoked, user_id),
                             data, user_id, CounterfactualWindow, TRUE, tie),
                         RankOf(r1.result, dest_id), dest_id) :
                  perturbed \in {[self EXCEPT !.users =
                                     SetColumn(self.users, "user_id", user_id,
                                               user_feature, target_value)]} }) :
          r1 \in {HybridRecommend(self, sub, data, user_id, CounterfactualWindow, TRUE, tie)} })

-----------------------------------------------------------------------------
(* Input data the model draws from *)

Histories == {h \in SUBSET Dests : Cardinality(h) <= MaxHistory}

MatrixOf(history) == [u \in Users |-> [d \in Dests |-> IF d \in history[u] THEN 1 ELSE 0]]

Matrices == {MatrixOf(history) : history \in [Users -> Histories]}

(* overall sustainability scores by destination: the scores of the
   documented scenario, scores with equal pairs, and all scores equal *)
Profiles ==
    << <<9, 2, 5, 8, 3, 7>>, <<9, 9, 0, 4, 4, 1>>, <<5, 5, 5, 5, 5, 5>> >>

TableOf(profile) ==
    [d \in Dests |-> LET s == profile[((d - 1) % Len(profile)) + 1] IN Row(d, s, 10 - s)]

UsersTable == [u \in Users |-> [user_id |-> u, sustainability_preference |-> (3 * u) % 11]]

DiskOf(matrix, table) == [matrix |-> matrix, destinations |-> table, users |-> UsersTable]

TieOrders == {"ascending", "descending"}

(* sustainability weights in tenths *)
Weights == {0, 3, 7, 10}

-----------------------------------------------------------------------------
(* State after construction *)

NewSub == [loaded |-> FALSE, fitted |-> FALSE, interaction_matrix |-> <<>>,
           destinations |-> <<>>, users |-> <<>>]

DefaultSustainabilityWeight == 3

NewHybrid ==
    [recommenders |-> <<>>, weights |-> <<>>,
     sustainability_weight |-> DefaultSustainabilityWeight,
     scorer_loaded |-> FALSE, scorer_destinations |-> <<>>,
     loaded |-> FALSE, interaction_matrix |-> <<>>,
     destinations |-> <<>>, users |-> <<>>]

Idle == [op |-> "idle"]

InitWith(matrices, tables) ==
    /\ disk \in {DiskOf(m, t) : m \in matrices, t \in tables}
    /\ argsort_tie \in TieOrders
    /\ hybrid = NewHybrid
    /\ subs = [k \in Kinds |-> NewSub]
    /\ explainer = [recommender |-> "hybrid", loaded |-> FALSE, destinations |-> <<>>]
    /\ call = Idle

-----------------------------------------------------------------------------
(* Operations *)

(* BaseRecommender.load_data, and ContentBasedRecommender's extension *)
SubLoad(kind, self, data) ==
    LET base == [self EXCEPT !.loaded = TRUE,
                             !.interaction_matrix = data.matrix,
                             !.destinations = data.destinations,
                             !.users = data.users]
    IN IF kind = "ContentBasedRecommender"
       THEN [f \in DOMAIN base \cup {"destination_features"} |->
                IF f = "destination_features"
                THEN extract_destination_features(data.destinations) ELSE base[f]]
       ELSE base

WithField(r, name, value) ==
    [f \in DOMAIN r \cup {name} |-> IF f = name THEN value ELSE r[f]]

(* fit() of each base recommender *)
SubFit(kind, self) ==
    LET done == [self EXCEPT !.fitted = TRUE]
    IN CASE kind = "PopularityRecommender" ->
                WithField(done, "popularity_scores", PopularityFit(self.interaction_matrix))
         [] kind = "ContentBasedRecommender" ->
                WithField(done, "feature_similarity", cosine_similarity(self.destination_features))
         [] kind = "UserBasedCF" ->
                WithField(done, "similarity_matrix", cosine_similarity(self.interaction_matrix))
         [] kind = "ItemBasedCF" ->
                WithField(done, "similarity_matrix",
                          cosine_similarity(Transpose(self.interaction_matrix)))

(* hybrid.add_recommender(recommender, weight), weight in tenths *)
AddRecommender(kinds, weights) ==
    /\ call = Idle
    /\ ~hybrid.loaded
    /\ Len(hybrid.recommenders) < MaxRecommenders
    /\ \E k \in kinds, w \in weights :
          hybrid' = add_recommender(hybrid, k, Frac(w, 10))
    /\ UNCHANGED <<disk, argsort_tie, subs, explainer, call>>

(* hybrid.load_data(): the hybrid's own tables, every recommender of the
   list, and the sustainability scorer built on the hybrid's destinations *)
LoadData ==
    /\ call = Idle
    /\ ~hybrid.loaded
    /\ hybrid.recommenders # <<>>
    /\ hybrid' = [hybrid EXCEPT !.loaded = TRUE,
                                !.interaction_matrix = disk.matrix,
                                !.destinations = disk.destinations,
                                !.users = disk.users,
                                !.scorer_loaded = TRUE,
                                !.scorer_destinations = disk.destinations]
    /\ subs' = [k \in Kinds |->
                   IF k \in SeqSet(hybrid.recommenders) THEN SubLoad(k, subs[k], disk)
                   ELSE subs[k]]
    /\ UNCHANGED <<disk, argsort_tie, explainer, call>>

(* recommender.load_data() on one base recommender of the list, for an
   ensemble assembled without hybrid.load_data() *)
SubLoadData ==
    /\ call = Idle
    /\ ~hybrid.loaded
    /\ \E k \in SeqSet(hybrid.recommenders) :
          /\ ~subs[k].loaded
          /\ subs' = [subs EXCEPT ![k] = SubLoad(k, subs[k], disk)]
    /\ UNCHANGED <<disk, argsort_tie, hybrid, explainer, call>>

(* hybrid.fit() *)
Fit ==
    /\ call = Idle
    /\ hybrid.recommenders # <<>>
    /\ \A k \in SeqSet(hybrid.recommenders) : subs[k].loaded
    /\ \E k \in SeqSet(hybrid.recommenders) : ~subs[k].fitted
    /\ subs' = [k \in Kinds |->
                   IF k \in SeqSet(hybrid.recommenders) THEN SubFit(k, subs[k])
                   ELSE subs[k]]
    /\ UNCHANGED <<disk, argsort_tie, hybrid, explainer, call>>

Fitted == hybrid.recommenders # <<>> /\ \A k \in SeqSet(hybrid.recommenders) : subs[k].fitted

(* recommender.sustainability_weight = w, as the front ends set it *)
SetWeight(weights) ==
    /\ call = Idle
    /\ Fitted
    /\ \E w \in weights :
          /\ w # hybrid.sustainability_weight
          /\ hybrid' = [hybrid EXCEPT !.sustainability_weight = w]
    /\ UNCHANGED <<disk, argsort_tie, subs, explainer, call>>

(* hybrid.recommend(user_id, n, exclude_visited) *)
Recommend(users, ns) ==
    /\ call = Idle
    /\ \E u \in users, n \in ns, x \in BOOLEAN :
          \E r \in {HybridRecommend(hybrid, subs, disk, u, n, x, argsort_tie)} :
             /\ call' = [op |-> "recommend", user_id |-> u, n |-> n,
                         exclude_visited |-> x,
                         sustainability_weight |-> hybrid.sustainability_weight,
                         error |-> r.error, result |-> r.result,
                         fused |-> r.fused, invoked |-> r.invoked,
                         lists |-> r.lists, recommenders |-> hybrid.recommenders,
                         weights |-> hybrid.weights,
                         reranked |-> r.reranked]
             /\ subs' = SubsAfterHybridRecommend(subs, r.invoked, u)
    /\ UNCHANGED <<disk, argsort_tie, hybrid, explainer>>

(* Candidate lists handed to a re-ranker on its own: every list of at
   most MaxLen distinct destinations of a table, each dictionary carrying
   the table's score as _format_recommendations writes it *)
RerankTableOf(profile) == [d \in 1..MaxLen |-> Row(d, profile[d], 10 - profile[d])]

RerankTables == {RerankTableOf(Profiles[p]) : p \in DOMAIN Profiles}

RecLists(table) ==
    UNION {{[k \in 1..len |-> Rec(ids[k], table[ids[k]].overall_sustainability_score)] :
              ids \in {f \in [1..len -> DOMAIN table] : IsInjective(f)}} :
           len \in 0..MaxLen}

(* SustainabilityScorer(table).apply_sustainability_weighting(recs, weight) *)
ScorerRerank(weights) ==
    /\ call = Idle
    /\ hybrid.recommenders = <<>>
    /\ \E table \in RerankTables, w \in weights :
          \E recs \in RecLists(table) :
             call' = [op |-> "apply_sustainability_weighting",
                      table |-> table, recommendations |-> recs, weight |-> w,
                      error |-> None,
                      result |-> apply_sustainability_weighting(table, recs, w)]
    /\ UNCHANGED <<disk, argsort_tie, hybrid, subs, explainer>>

(* SustainabilityWeighting().apply_weighting_to_recommendations(recs, scheme, weight) *)
WeightingRerank(schemes, weights) ==
    /\ call = Idle
    /\ hybrid.recommenders = <<>>
    /\ \E table \in RerankTables, w \in weights, scheme \in schemes :
          \E recs \in RecLists(table) :
             \E r \in {apply_weighting_to_recommendations(recs, scheme, w, DefaultThreshold)} :
                call' = [op |-> "apply_weighting_to_recommendations",
                         table |-> table, recommendations |-> recs, weight |-> w,
                         scheme |-> scheme, error |-> r.error, result |-> r.result]
    /\ UNCHANGED <<disk, argsort_tie, hybrid, subs, explainer>>

(* What the caller of a counterfactual sees, with the recommender's
   factors as they were before the call *)
CounterfactualCall(op, user_id, dest_id, factor, target, current_weight, r) ==
    [op |-> op, user_id |-> user_id, dest_id |-> dest_id, factor |-> factor,
     target |-> target, before |-> Factors(hybrid),
     outcome |-> r.outcome, stage |-> r.stage, error |-> r.error,
     after |-> Factors(r.after), written |-> r.written,
     reruns |-> r.reruns, current |-> r.current, counterfactual |-> r.counterfactual,
     current_weight |-> current_weight,
     current_rank |-> r.current_rank, counterfactual_rank |-> r.counterfactual_rank,
     dropped_out |-> r.dropped_out, rank_change |-> r.rank_change,
     moved_up |-> MovedUp(r.current, r.counterfactual, r.current_rank,
                          r.counterfactual_rank),
     moved_down |-> MovedDown(r.current, r.counterfactual, r.current_rank,
                              r.counterfactual_rank)]

(* both runs of recommend go through the base recommenders *)
SubsAfterCounterfactual(user_id, r) ==
    SubsAfterHybridRecommend(subs, r.invoked, user_id)

(* explainer.load_data() at the head of the two methods that call it *)
ExplainerLoaded ==
    [explainer EXCEPT !.loaded = TRUE,
                      !.destinations = ExplainerDestinations(explainer, disk)]

(* explainer.generate_sustainability_counterfactual(user_id, dest_id,
   sustainability_weight, target_weight) *)
SustainabilityCounterfactual(users, dests, current_weights, target_weights) ==
    /\ call = Idle
    /\ \E u \in users, d \in dests, w \in current_weights, t \in target_weights :
          \E r \in {generate_sustainability_counterfactual(explainer, hybrid, subs, disk,
                                                           u, d, t, argsort_tie)} :
             /\ call' = CounterfactualCall("generate_sustainability_counterfactual",
                                           u, d, "sustainability_weight", t, w, r)
             /\ hybrid' = r.after
             /\ subs' = SubsAfterCounterfactual(u, r)
    /\ explainer' = ExplainerLoaded
    /\ UNCHANGED <<disk, argsort_tie>>

(* explainer.generate_feature_counterfactual(user_id, dest_id, feature, target_value) *)
FeatureCounterfactual(users, dests, features, values) ==
    /\ call = Idle
    /\ \E u \in users, d \in dests, f \in features, v \in values :
          \E r \in {generate_feature_counterfactual(explainer, hybrid, subs, disk,
                                                    u, d, f, v, argsort_tie)} :
             /\ call' = CounterfactualCall("generate_feature_counterfactual",
                                           u, d, f, v, hybrid.sustainability_weight, r)
             /\ hybrid' = r.after
             /\ subs' = SubsAfterCounterfactual(u, r)
    /\ explainer' = ExplainerLoaded
    /\ UNCHANGED <<disk, argsort_tie>>

(* explainer.generate_user_counterfactual(user_id, dest_id, user_feature, target_value) *)
UserCounterfactual(users, dests, features, values) ==
    /\ call = Idle
    /\ \E u \in users, d \in dests, f \in features, v \in values :
          \E r \in {generate_user_counterfactual(hybrid, subs, disk,
                                                 u, d, f, v, argsort_tie)} :
             /\ call' = CounterfactualCall("generate_user_counterfactual",
                                           u, d, f, v, hybrid.sustainability_weight, r)
             /\ hybrid' = r.after
             /\ subs' = SubsAfterCounterfactual(u, r)
    /\ UNCHANGED <<disk, argsort_tie, explainer>>

(* Score lists handed to apply_weighting, in tenths *)
Tenths == 0..10

ScoreLists == [1..1 -> Tenths] \cup [1..2 -> {0, 10}]

(* SustainabilityWeighting().apply_weighting(base_scores, sustainability_scores,
   scheme, weight), with threshold=... for the threshold scheme *)
ApplyWeighting(schemes, weights, thresholds) ==
    /\ call = Idle
    /\ hybrid.recommenders = <<>>
    /\ \E scheme \in schemes, w \in weights, base \in ScoreLists, sust \in ScoreLists :
          \E th \in (IF scheme = "threshold" THEN thresholds ELSE {DefaultThreshold}) :
             \E r \in {apply_weighting(base, sust, scheme, w, th)} :
                call' = [op |-> "apply_weighting", base_scores |-> base,
                         sustainability_scores |-> sust, scheme |-> scheme,
                         weight |-> w, threshold |-> th,
                         error |-> r.error, result |-> r.result]
    /\ UNCHANGED <<disk, argsort_tie, hybrid, subs, explainer>>

(* the caller takes the result *)
Return ==
    /\ call # Idle
    /\ call' = Idle
    /\ UNCHANGED <<disk, argsort_tie, hybrid, subs, explainer>>

-----------------------------------------------------------------------------
(* The pipeline over every interaction matrix of the bounds *)

Init == InitWith(Matrices, {TableOf(Profiles[2])})

Next ==
    \/ AddRecommender(Kinds, {10})
    \/ LoadData
    \/ Fit
    \/ SetWeight({3, 7})
    \/ Recommend(Users, 0..MaxN)
    \/ Return

Spec == Init /\ [][Next]_vars

(* The ensemble over every sequence of recommenders and weights, on the
   matrices in which only the first user has a history *)

EnsembleMatrices == {m \in Matrices : \A u \in Users \ {1} : \A d \in Dests : m[u][d] = 0}

RawWeights == {1, 3, 7, 10}

InitEnsemble == InitWith(EnsembleMatrices, {TableOf(Profiles[1])})

NextEnsemble ==
    \/ AddRecommender(Kinds, RawWeights)
    \/ LoadData
    \/ Fit
    \/ Recommend({1}, 0..MaxN)
    \/ Return

SpecEnsemble == InitEnsemble /\ [][NextEnsemble]_vars

(* The re-rankers on their own over every candidate list of the bounds,
   and the ensemble's re-ranking step on one interaction matrix *)

RerankMatrix == MatrixOf([u \in Users |-> IF u = 1 THEN {1} ELSE {}])

InitRerank == InitWith({RerankMatrix}, {TableOf(Profiles[2])})

NextRerank ==
    \/ ScorerRerank(Weights)
    \/ WeightingRerank(Schemes \cup {"cubic"}, Weights)
    \/ AddRecommender(Kinds, {10})
    \/ LoadData
    \/ Fit
    \/ SetWeight(Weights)
    \/ Recommend(Users, {MaxN})
    \/ Return

SpecRerank == InitRerank /\ [][NextRerank]_vars

(* The weighting schemes over every score, weight and threshold in tenths,
   and the re-rankers and the ensemble at weights outside [0, 1] *)

OutsideWeights == {0 - 5, 15}

Thresholds == 1..10

InitWeights == InitWith({RerankMatrix}, {TableOf(Profiles[2])})

NextWeights ==
    \/ ApplyWeighting(Schemes \cup {"cubic"}, Weights \cup OutsideWeights, Thresholds)
    \/ ScorerRerank(OutsideWeights)
    \/ AddRecommender({"PopularityRecommender"}, {10})
    \/ LoadData
    \/ Fit
    \/ SetWeight(OutsideWeights)
    \/ Recommend(Users, {MaxN})
    \/ Return

SpecWeights == InitWeights /\ [][NextWeights]_vars

(* The counterfactual engine around the ensemble, assembled either by
   hybrid.load_data() or by loading its recommenders one by one *)

CounterfactualMatrices == EnsembleMatrices

CounterfactualKinds == {"PopularityRecommender", "UserBasedCF"}

DestinationFeatures == {"overall_sustainability_score", "altitude"}

UserFeatures == {"sustainability_preference", "age"}

(* the weights the front ends configure in this specification *)
ConfiguredWeights == {0, DefaultSustainabilityWeight}

InitCF == InitWith(CounterfactualMatrices, {TableOf(Profiles[2])})

NextCF ==
    \/ AddRecommender(CounterfactualKinds, {10})
    \/ LoadData
    \/ SubLoadData
    \/ Fit
    \/ SetWeight(ConfiguredWeights)
    \/ SustainabilityCounterfactual(Users, Dests, {DefaultSustainabilityWeight}, {0, 7})
    \/ FeatureCounterfactual(Users, Dests, DestinationFeatures, {0})
    \/ UserCounterfactual(Users, Dests, UserFeatures, {10})
    \/ Return

SpecCF == InitCF /\ [][NextCF]_vars

-----------------------------------------------------------------------------
(* The evaluation harness: evaluate_recommender on the hybrid or on one of
   its base recommenders, over interaction data with enough history for the
   harness to hold some of it out *)

MinInteractions == 5

NumEvalDests == 6

EvalDests == 1..NumEvalDests

(* the object handed to evaluate_recommender: "hybrid" or a base recommender *)
TargetMatrix(h, s, target) ==
    IF target = "hybrid" THEN h.interaction_matrix ELSE s[target].interaction_matrix

(* recommender.interaction_matrix = matrix *)
WithMatrix(h, s, target, matrix) ==
    IF target = "hybrid"
    THEN [hybrid |-> [h EXCEPT !.interaction_matrix = matrix], subs |-> s]
    ELSE [hybrid |-> h, subs |-> [s EXCEPT ![target].interaction_matrix = matrix]]

(* recommender.recommend(user_id, n=k, exclude_visited=True) *)
TargetRecommend(h, s, data, target, user_id, k, tie) ==
    IF target = "hybrid" THEN HybridRecommend(h, s, data, user_id, k, TRUE, tie)
    ELSE SubRecommend(target, s[target], data, user_id, k, TRUE, tie)

TargetSubsAfter(s, target, r, user_id) ==
    IF target = "hybrid" THEN SubsAfterHybridRecommend(s, r.invoked, user_id)
    ELSE [s EXCEPT ![target] = SubAfterRecommend(target, @, user_id)]

(* np.where(recommender.interaction_matrix[user_idx] > 0)[0] *)
PositiveIndices(matrix, user_id) == {d \in DOMAIN matrix[user_id] : matrix[user_id][d] > 0}

(* max(1, int(0.2 * len(positive_indices))) *)
NTest(positive_indices) ==
    IF (2 * Cardinality(positive_indices)) \div 10 > 1
    THEN (2 * Cardinality(positive_indices)) \div 10 ELSE 1

(* train_matrix: a copy with the held-out entries of the user's row at 0 *)
TrainMatrix(matrix, user_id, test_indices) ==
    [matrix EXCEPT ![user_id] = [d \in DOMAIN @ |-> IF d \in test_indices THEN 0 ELSE @[d]]]

(* What the harness leaves and how it ended.  stage is "index" when
   _get_user_index raised, "recommend" when recommend raised between the
   replacement of the matrix and its restoration, "return" otherwise;
   scored lists the users that were not skipped, with what was held out. *)
EvalReport(error, stage, h, s, valid, scored) ==
    [error |-> error, stage |-> stage, hybrid |-> h, subs |-> s, valid |-> valid,
     scored |-> scored]

(* evaluate_recommender(recommender, test_users, k), from user i of the list
   on.  shuffled[i] is the head of the shuffled positive indices of user i:
   the interactions held out. *)
RECURSIVE evaluate_recommender(_, _, _, _, _, _, _, _, _, _)
evaluate_recommender(target, h, s, data, test_users, shuffled, k, tie, i, scored) ==
    IF i > Len(test_users) THEN EvalReport(None, "return", h, s, TRUE, scored)
    ELSE IF test_users[i] \notin DOMAIN TargetMatrix(h, s, target)
    THEN EvalReport("IndexError", "index", h, s, shuffled[i] = {}, scored)
    ELSE IF Cardinality(PositiveIndices(TargetMatrix(h, s, target), test_users[i])) < MinInteractions
    THEN One({[r EXCEPT !.valid = @ /\ shuffled[i] = {}] :
              r \in {evaluate_recommender(target, h, s, data, test_users, shuffled,
                                          k, tie, i + 1, scored)}})
    ELSE LET original_matrix == TargetMatrix(h, s, target)
             positive_indices == PositiveIndices(original_matrix, test_users[i])
             train == WithMatrix(h, s, target,
                                 TrainMatrix(original_matrix, test_users[i], shuffled[i]))
             valid == /\ shuffled[i] \subseteq positive_indices
                      /\ Cardinality(shuffled[i]) = NTest(positive_indices)
         IN One({ IF recs.error # None
                  THEN EvalReport(recs.error, "recommend", train.hybrid,
                                  TargetSubsAfter(train.subs, target, recs, test_users[i]),
                                  valid, scored)
                  ELSE One({[r EXCEPT !.valid = @ /\ valid] :
                            r \in {evaluate_recommender(target,
                                       WithMatrix(train.hybrid, train.subs, target,
                                                  original_matrix).hybrid,
                                       WithMatrix(train.hybrid,
                                                  TargetSubsAfter(train.subs, target, recs,
                                                                  test_users[i]),
                                                  target, original_matrix).subs,
                                       data, test_users, shuffled, k, tie, i + 1,
                                       Append(scored, [user_id |-> test_users[i],
                                                       test_indices |-> shuffled[i],
                                                       recs |-> recs.result]))}}) :
                recs \in {TargetRecommend(train.hybrid, train.subs, data, target,
                                          test_users[i], k, tie)} })

(* evaluate_recommender(recommender, test_users, k) *)
Evaluate(user_lists, ks) ==
    /\ call = Idle
    /\ \E target \in {"hybrid"} \cup SeqSet(hybrid.recommenders),
           test_users \in user_lists, k \in ks :
          \E shuffled \in [DOMAIN test_users ->
                              {S \in SUBSET EvalDests : Cardinality(S) <= NTest(EvalDests)}] :
             \E r \in {evaluate_recommender(target, hybrid, subs, disk, test_users,
                                            shuffled, k, argsort_tie, 1, <<>>)} :
                /\ r.valid
                /\ call' = [op |-> "evaluate_recommender", target |-> target,
                            test_users |-> test_users, k |-> k,
                            before |-> TargetMatrix(hybrid, subs, target),
                            after |-> TargetMatrix(r.hybrid, r.subs, target),
                            error |-> r.error, stage |-> r.stage, scored |-> r.scored]
                /\ hybrid' = r.hybrid
                /\ subs' = r.subs
    /\ UNCHANGED <<disk, argsort_tie, explainer>>

(* interaction data: user 1 has at least MinInteractions visits, the
   others fewer *)
EvalMatrices ==
    {[u \in Users |-> [d \in EvalDests |->
         IF (u = 1 /\ d \in visited) \/ (u # 1 /\ d <= u) THEN 1 ELSE 0]] :
     visited \in {S \in SUBSET EvalDests : 1..MinInteractions \subseteq S}}

EvalTable ==
    [d \in EvalDests |-> LET s == Profiles[1][((d - 1) % Len(Profiles[1])) + 1]
                         IN Row(d, s, 10 - s)]

EvalUserLists == {<<2, 1>>, <<1, NumUsers + 1>>}

InitEval == InitWith(EvalMatrices, {EvalTable})

NextEval ==
    \/ AddRecommender({"PopularityRecommender"}, {10})
    \/ LoadData
    \/ SubLoadData
    \/ Fit
    \/ Evaluate(EvalUserLists, {MaxN})
    \/ Return

SpecEval == InitEval /\ [][NextEval]_vars

-----------------------------------------------------------------------------
(* Building an ensemble the way create_default_hybrid_recommender does:
   one add_recommender call after the other on an empty hybrid *)

(* the weights of the default hybrid, in tenths *)
DefaultWeights == <<1, 3, 3, 3>>

DefaultKinds ==
    <<"PopularityRecommender", "ContentBasedRecommender", "UserBasedCF", "ItemBasedCF">>

(* the weight lists handed to the builder: the default one among them *)
BuildWeights ==
    UNION {[1..len -> RawWeights] : len \in 1..Len(DefaultWeights)}

(* hybrid.add_recommender(recommender, weight=w) for the next recommender
   and weight of the list *)
BuildAdd ==
    /\ call = Idle
    /\ Len(hybrid.recommenders) < Len(disk.build_weights)
    /\ hybrid' = add_recommender(hybrid, DefaultKinds[Len(hybrid.recommenders) + 1],
                                 Frac(disk.build_weights[Len(hybrid.recommenders) + 1], 10))
    /\ UNCHANGED <<disk, argsort_tie, subs, explainer, call>>

InitBuild ==
    /\ disk \in {[build_weights |-> ws] : ws \in BuildWeights}
    /\ argsort_tie = "ascending"
    /\ hybrid = NewHybrid
    /\ subs = [k \in Kinds |-> NewSub]
    /\ explainer = [recommender |-> "hybrid", loaded |-> FALSE, destinations |-> <<>>]
    /\ call = Idle

NextBuild == BuildAdd

SpecBuild == InitBuild /\ [][NextBuild]_vars

-----------------------------------------------------------------------------
(* DataProcessor: the interaction matrix built from the raw tables *)

(* interactions[user_idx, ...] with user_idx = user_id - 1 on a matrix of n
   rows, as a 1-based row: numpy counts a negative index from the end, and
   raises IndexError outside -n .. n - 1 (row 0 here) *)
RowOfUserIdx(user_idx, n) ==
    IF user_idx >= 0 /\ user_idx < n THEN user_idx + 1
    ELSE IF user_idx < 0 /\ user_idx >= 0 - n THEN n + user_idx + 1
    ELSE 0

(* np.where(all_dest_ids == dest_id)[0][0], 1-based *)
IndexOfId(ids, id) == CHOOSE j \in DOMAIN ids : ids[j] = id /\ \A q \in 1..(j - 1) : ids[q] # id

create_user_destination_matrix(users, destinations) ==
    LET all_user_ids == FirstSeen([r \in DOMAIN users |-> users[r].user_id], {})
        all_dest_ids == FirstSeen(destinations, {})
        writes == {<<RowOfUserIdx(users[r].user_id - 1, Len(all_user_ids)),
                     IndexOfId(all_dest_ids, d)>> :
                      <<r, d>> \in {<<q, e>> \in (DOMAIN users) \X SeqSet(all_dest_ids) :
                                       users[q].is_list /\ e \in users[q].travel_history}}
    IN IF \E w \in writes : w[1] = 0
       THEN [error |-> "IndexError", interactions |-> <<>>,
             user_ids |-> <<>>, dest_ids |-> <<>>]
       ELSE [error |-> None,
             interactions |-> [i \in DOMAIN all_user_ids |-> [j \in DOMAIN all_dest_ids |->
                                  IF <<i, j>> \in writes THEN 1 ELSE 0]],
             user_ids |-> all_user_ids, dest_ids |-> all_dest_ids]

(* processor.create_user_destination_matrix() on the tables it has loaded *)
CreateMatrix ==
    /\ call = Idle
    /\ \E r \in {create_user_destination_matrix(disk.raw_users, disk.raw_destinations)} :
          call' = [op |-> "create_user_destination_matrix",
                   users |-> disk.raw_users, error |-> r.error,
                   interactions |-> r.interactions,
                   user_ids |-> r.user_ids, dest_ids |-> r.dest_ids]
    /\ UNCHANGED <<disk, argsort_tie, hybrid, subs, explainer>>

(* raw user ids: distinct, in any order, not always 1..n *)
UserIdPool == 1..(NumUsers + 1)

RawIdLists == {ids \in [1..NumUsers -> UserIdPool] : IsInjective(ids)}

(* a travel_history cell: a list of destination ids, some of them unknown
   to the destinations table, or a cell that is no list *)
RawHistories == SUBSET {1, 2, 9}

RawUserTables ==
    {[r \in 1..NumUsers |-> [user_id |-> ids[r], is_list |-> lists[r],
                              travel_history |-> IF lists[r] THEN histories[r] ELSE {}]] :
        ids \in RawIdLists, lists \in [1..NumUsers -> BOOLEAN],
        histories \in [1..NumUsers -> RawHistories]}

RawDestinationIds == {<<1, 2>>, <<2, 1>>}

InitRaw ==
    /\ disk \in {[raw_users |-> u, raw_destinations |-> d] :
                    u \in RawUserTables, d \in RawDestinationIds}
    /\ argsort_tie = "ascending"
    /\ hybrid = NewHybrid
    /\ subs = [k \in Kinds |-> NewSub]
    /\ explainer = [recommender |-> "hybrid", loaded |-> FALSE, destinations |-> <<>>]
    /\ call = Idle

NextRaw ==
    \/ CreateMatrix
    \/ Return

SpecRaw == InitRaw /\ [][NextRaw]_vars

-----------------------------------------------------------------------------
(* The state a fitted recommender is in before any recommend call *)

FreshSub(kind, data) == SubFit(kind, SubLoad(kind, NewSub, data))

FreshSubs == [k \in Kinds |-> IF subs[k].fitted THEN FreshSub(k, disk) ELSE subs[k]]

Visited(user_id) == {d \in Dests : disk.matrix[user_id][d] > 0}

(* C1: recommend(u, n, exclude_visited=True) for a user of the index returns
   at most n candidates, with pairwise distinct destination ids, none of
   them visited by u. *)
C1_RecommendBounded ==
    (call.op = "recommend" /\ call.exclude_visited /\ call.error = None) =>
        /\ Len(call.result) <= call.n
        /\ IsInjective(DestIds(call.result))
        /\ \A k \in DOMAIN call.result :
               call.result[k].destination_id \notin Visited(call.user_id)

C1_Witness ==
    /\ call.op = "recommend" /\ call.exclude_visited /\ call.error = None
    /\ call.n = MaxN /\ Len(call.result) = MaxN
    /\ Visited(call.user_id) # {}
    /\ Len(hybrid.recommenders) = MaxRecommenders

(* C2: after any non-empty sequence of add_recommender calls with positive
   weights there is one weight per recommender and the weights sum to 1. *)
C2_WeightsSumToOne ==
    hybrid.recommenders # <<>> =>
        /\ Len(hybrid.weights) = Len(hybrid.recommenders)
        /\ FracSum(hybrid.weights) = <<1, 1>>

C2_Witness ==
    /\ Len(hybrid.recommenders) = MaxRecommenders
    /\ \E i, j \in DOMAIN hybrid.weights : hybrid.weights[i] # hybrid.weights[j]

(* C8: the result of recommend is a function of its arguments, the data and
   the configuration alone: whatever calls came before, it is the result a
   freshly fitted ensemble with the same weight gives. *)
C8_Deterministic ==
    call.op = "recommend" =>
        \E r \in {HybridRecommend(hybrid, FreshSubs, disk, call.user_id, call.n,
                                  call.exclude_visited, argsort_tie)} :
            /\ r.error = call.error
            /\ r.result = call.result

C8_Witness ==
    /\ call.op = "recommend" /\ call.error = None /\ call.reranked
    /\ Len(call.result) >= 2
    /\ "UserBasedCF" \in call.invoked
    /\ \E u \in Users \ {call.user_id} :
           subs["UserBasedCF"].similarity_matrix[u] # FreshSubs["UserBasedCF"].similarity_matrix[u]
    /\ hybrid.sustainability_weight # DefaultSustainabilityWeight

(* C10: recommend on an ensemble without recommenders fails, whatever the
   arguments, and calls neither a recommender nor the re-ranker. *)
C10_EmptyEnsembleFails ==
    (call.op = "recommend" /\ hybrid.recommenders = <<>>) =>
        /\ call.error = "ValueError"
        /\ call.result = <<>>
        /\ call.invoked = {}
        /\ ~call.reranked

C10_Witness ==
    /\ call.op = "recommend" /\ hybrid.recommenders = <<>>
    /\ call.n = MaxN /\ ~call.exclude_visited

Reranked == call.op \in {"apply_sustainability_weighting", "apply_weighting_to_recommendations"}

Sust(recs) == [k \in DOMAIN recs |-> recs[k].sustainability_score]

(* C5: re-ranking with weight 0 returns the candidates in the input order:
   the scorer, the weighting under every scheme, and the ensemble, whose
   output at weight 0 is the fused order. *)
C5_WeightZeroKeepsOrder ==
    /\ (call.op = "apply_sustainability_weighting" /\ call.weight = 0) =>
           call.result = call.recommendations
    /\ (call.op = "apply_weighting_to_recommendations" /\ call.weight = 0
            /\ call.scheme \in Schemes) =>
           (call.error = None /\ call.result = call.recommendations)
    /\ (call.op = "recommend" /\ call.sustainability_weight = 0 /\ call.error = None) =>
           call.result = call.fused

(* the base order and the sustainability order disagree, so any use of the
   sustainability score would show *)
C5_Witness ==
    /\ call.op = "apply_weighting_to_recommendations" /\ call.weight = 0
    /\ call.scheme = "sigmoid"
    /\ Len(call.recommendations) = MaxLen
    /\ \E i, j \in DOMAIN call.recommendations :
           i < j /\ Sust(call.recommendations)[i] < Sust(call.recommendations)[j]

(* C6 as claimed: at weight 1 under the linear scheme every candidate has
   a strictly greater sustainability score than the one after it. *)
C6_StrictlyDescending ==
    (Reranked /\ call.weight = 10 /\ call.error = None
        /\ (call.op = "apply_weighting_to_recommendations" => call.scheme = "linear")) =>
        \A k \in 1..(Len(call.result) - 1) :
            Sust(call.result)[k] > Sust(call.result)[k + 1]

(* C6 amended: at weight 1 under the linear scheme no candidate has a
   smaller sustainability score than the one after it. *)
C6_Descending ==
    (Reranked /\ call.weight = 10 /\ call.error = None
        /\ (call.op = "apply_weighting_to_recommendations" => call.scheme = "linear")) =>
        \A k \in 1..(Len(call.result) - 1) :
            Sust(call.result)[k] >= Sust(call.result)[k + 1]

C6_Witness ==
    /\ call.op = "apply_sustainability_weighting" /\ call.weight = 10
    /\ Len(call.result) = MaxLen
    /\ call.result # call.recommendations
    /\ \E k \in 1..(Len(call.result) - 1) : Sust(call.result)[k] = Sust(call.result)[k + 1]

ScenarioA == [k \in 1..5 |-> Rec(k, Profiles[1][k])]

(* C9: the list [1,2,3,4,5] with sustainability scores [9,2,5,8,3],
   re-ranked with weight 1.0 under the linear scheme, comes out as
   [1,4,3,5,2]. *)
C9_ScenarioA ==
    (Reranked /\ call.recommendations = ScenarioA /\ call.weight = 10
        /\ (call.op = "apply_weighting_to_recommendations" => call.scheme = "linear")) =>
        (call.error = None /\ DestIds(call.result) = <<1, 4, 3, 5, 2>>)

C9_Witness ==
    /\ call.op = "apply_sustainability_weighting"
    /\ call.recommendations = ScenarioA /\ call.weight = 10
    /\ Sust(call.result) = <<9, 8, 5, 3, 2>>

-----------------------------------------------------------------------------
(* The counterfactual engine *)

CounterfactualOps ==
    {"generate_sustainability_counterfactual", "generate_feature_counterfactual",
     "generate_user_counterfactual"}

FactorNames == {"sustainability_weight", "destinations", "users"}

(* the factor each operation may override *)
OwnFactor(op) ==
    CASE op = "generate_sustainability_counterfactual" -> "sustainability_weight"
      [] op = "generate_feature_counterfactual" -> "destinations"
      [] op = "generate_user_counterfactual" -> "users"

(* C3 as claimed: when the re-run of recommend under the override raises,
   the overridden factor is back at its saved value when the error reaches
   the caller. *)
C3_RestoredWhenRerunRaises ==
    (call.op \in CounterfactualOps /\ call.outcome = "raised" /\ call.stage = "rerun") =>
        Factors(hybrid)[OwnFactor(call.op)] = call.before[OwnFactor(call.op)]

(* C4: a counterfactual that returns leaves the weight, the destinations
   table and the users table as they were before the call, and whatever its
   outcome it writes no factor but its own: the other two are never written
   and have their former values. *)
C4_ScopedOverride ==
    call.op \in CounterfactualOps =>
        /\ call.written \subseteq {OwnFactor(call.op)}
        /\ \A f \in FactorNames \ {OwnFactor(call.op)} :
               Factors(hybrid)[f] = call.before[f]
        /\ call.outcome # "raised" => Factors(hybrid) = call.before

C4_Witness ==
    /\ call.op = "generate_sustainability_counterfactual"
    /\ call.outcome = "explanation"
    /\ call.written = {"sustainability_weight"}
    /\ call.target # call.before.sustainability_weight
    /\ call.rank_change # 0
    /\ hybrid.sustainability_weight = call.before.sustainability_weight

(* twice the median of the candidates' sustainability scores *)
TwiceMedian(recs) ==
    LET n == Len(recs)
        s == SortedReverseOf(Sust(recs), Sust(recs))
    IN IF n % 2 = 1 THEN 2 * s[(n + 1) \div 2] ELSE s[n \div 2] + s[n \div 2 + 1]

TargetScore(recs, dest_id) == recs[RankOf(recs, dest_id)].sustainability_score

BelowMedian(recs, dest_id) == 2 * TargetScore(recs, dest_id) < TwiceMedian(recs)

Lowest(recs, dest_id) ==
    \A k \in DOMAIN recs : TargetScore(recs, dest_id) <= recs[k].sustainability_score

(* the sustainability counterfactual of scenario B: the recommender at
   weight 0.3, the target weight 0.7, the target in the baseline list *)
ScenarioB ==
    /\ call.op = "generate_sustainability_counterfactual"
    /\ call.outcome = "explanation"
    /\ call.before.sustainability_weight = 3
    /\ call.target = 7

(* C7 as claimed: a target whose sustainability score is below the median
   of the candidates' scores never gets a better rank when the weight goes
   from 0.3 to 0.7. *)
C7_BelowMedianNeverImproves ==
    (ScenarioB /\ BelowMedian(call.current, call.dest_id)) =>
        (call.dropped_out \/ call.counterfactual_rank >= call.current_rank)

(* C7 amended: a target whose sustainability score is the lowest of the
   candidates' scores never gets a better rank when the weight goes from
   0.3 to 0.7: counterfactual_rank >= current_rank, rank_change <= 0. *)
C7_LowestNeverImproves ==
    (ScenarioB /\ Lowest(call.current, call.dest_id)) =>
        /\ ~call.dropped_out
        /\ call.counterfactual_rank >= call.current_rank
        /\ call.rank_change <= 0

C7_Witness ==
    /\ ScenarioB
    /\ Lowest(call.current, call.dest_id)
    /\ BelowMedian(call.current, call.dest_id)
    /\ call.counterfactual_rank > call.current_rank
    /\ call.moved_up # <<>>

-----------------------------------------------------------------------------
(* The re-rankers' output as a rearrangement of their input *)

(* C11: whatever the input list, the weight and the scheme, the re-ranked
   list has the length of the input and holds exactly its candidates: none
   dropped, none added, none twice. *)
C11_RerankIsPermutation ==
    (Reranked /\ call.error = None) =>
        /\ Len(call.result) = Len(call.recommendations)
        /\ SeqSet(call.result) = SeqSet(call.recommendations)
        /\ IsInjective(DestIds(call.result))

C11_Witness ==
    /\ call.op = "apply_weighting_to_recommendations" /\ call.error = None
    /\ call.scheme = "threshold" /\ call.weight = 7
    /\ Len(call.recommendations) = MaxLen
    /\ call.result # call.recommendations
    /\ \E i, j \in DOMAIN call.recommendations :
           i # j /\ Sust(call.recommendations)[i] = Sust(call.recommendations)[j]

-----------------------------------------------------------------------------
(* The weighting schemes and the weight's range *)

(* C12: for every base score, sustainability score and weight in [0, 1],
   and every threshold in (0, 1], the blended score of each of the four
   schemes lies in [0, 1]. *)
C12_BlendedScoreInUnitInterval ==
    (call.op = "apply_weighting" /\ call.error = None /\ call.weight \in 0..10) =>
        \A k \in DOMAIN call.result :
            /\ call.result[k] >= 0
            /\ call.result[k] <= WeightedDen(call.scheme, call.threshold)

C12_Witness ==
    /\ call.op = "apply_weighting" /\ call.error = None
    /\ call.scheme = "threshold" /\ call.threshold = 10 /\ call.weight = 10
    /\ call.base_scores = <<10>> /\ call.sustainability_scores = <<10>>
    /\ call.result = <<WeightedDen("threshold", 10)>>

(* C13 as claimed: re-ranking with a weight outside [0, 1] fails instead of
   returning a ranking, in the scorer, in apply_weighting and in the
   ensemble's recommend. *)
C13_OutsideWeightFails ==
    /\ (call.op \in {"apply_sustainability_weighting", "apply_weighting"}
            /\ call.weight \notin 0..10) => call.error # None
    /\ (call.op = "recommend" /\ call.sustainability_weight \notin 0..10) =>
           call.error # None

-----------------------------------------------------------------------------
(* What a counterfactual reports *)

Explained == call.op \in CounterfactualOps /\ call.outcome = "explanation"

(* C14: when the target is in both lists, rank_change is current_rank minus
   counterfactual_rank, both 1-based: positive exactly when the target moved
   to a smaller rank, zero when it stayed, negative when it moved to a
   larger one. *)
C14_RankChangeIsBaselineMinusPerturbed ==
    (Explained /\ ~call.dropped_out) =>
        /\ call.current_rank = RankOf(call.current, call.dest_id)
        /\ call.counterfactual_rank = RankOf(call.counterfactual, call.dest_id)
        /\ call.current_rank >= 1 /\ call.counterfactual_rank >= 1
        /\ call.rank_change = call.current_rank - call.counterfactual_rank

C14_Witness ==
    /\ Explained /\ ~call.dropped_out
    /\ call.rank_change > 0
    /\ call.counterfactual_rank < call.current_rank

(* destinations listed in both runs that stand on the given sides of the
   target: after it in the first list and before it in the second *)
Crossed(first, second, dest_id) ==
    {d \in SeqSet(DestIds(first)) \cap SeqSet(DestIds(second)) :
        /\ RankOf(first, d) > RankOf(first, dest_id)
        /\ RankOf(second, d) < RankOf(second, dest_id)}

(* C15: in the sustainability counterfactual, moved_up is exactly the
   destinations ranked below the target in the baseline list and above it in
   the perturbed list, and moved_down exactly those ranked above it in the
   baseline list and below it in the perturbed list. *)
C15_MovedListsAreCrossingSets ==
    (call.op = "generate_sustainability_counterfactual"
         /\ call.outcome = "explanation" /\ ~call.dropped_out) =>
        /\ SeqSet(call.moved_up) = Crossed(call.current, call.counterfactual, call.dest_id)
        /\ SeqSet(call.moved_down) = Crossed(call.counterfactual, call.current, call.dest_id)

(* C16: a counterfactual that ends with the error dictionary, because the
   feature is not a column or the target is not in the baseline list, has
   set no override and run no second recommend: the recommender's
   sustainability_weight, destinations and users are as they were. *)
C16_ErrorOutcomeWritesNothing ==
    (call.op \in CounterfactualOps /\ call.outcome = "error") =>
        /\ call.written = {}
        /\ call.reruns = 0
        /\ call.counterfactual = <<>>
        /\ call.after = call.before
        /\ Factors(hybrid) = call.before

C16_Witness ==
    /\ call.op = "generate_sustainability_counterfactual"
    /\ call.outcome = "error" /\ call.stage = "baseline"
    /\ call.current # <<>>
    /\ RankOf(call.current, call.dest_id) = 0
    /\ call.target # call.before.sustainability_weight

(* C17: over any sequence of counterfactual calls, those whose second run
   raises included, no override begins while an earlier one is unrestored:
   the factors a call finds, and saves as the original, are the configured
   weight and the loaded tables, never a value an earlier call had set. *)
C17_SavedOriginalIsGenuine ==
    (call.op \in CounterfactualOps /\ call.written # {}) =>
        /\ call.before.sustainability_weight \in ConfiguredWeights
        /\ call.before.destinations \in {NewHybrid.destinations, disk.destinations}
        /\ call.before.users \in {NewHybrid.users, disk.users}

-----------------------------------------------------------------------------
(* The evaluation harness and the interaction matrix *)

Evaluated == call.op = "evaluate_recommender"

(* C18: evaluate_recommender leaves every entry of
   recommender.interaction_matrix as it was before the call, for any list
   of test users, skipped ones included, both when it returns and when
   recommend raises between the replacement and the restoration. *)
C18_MatrixRestored ==
    (Evaluated /\ call.stage \in {"return", "recommend"}) => call.after = call.before

(* the half of it that concerns a call that returns *)
C18_RestoredOnReturn ==
    (Evaluated /\ call.stage = "return") => call.after = call.before

C18_ReturnWitness ==
    Evaluated /\ call.stage = "return" /\ call.scored # <<>> /\ Len(call.test_users) > Len(call.scored)

-----------------------------------------------------------------------------
(* The interaction matrix and its id arrays *)

MatrixBuilt == call.op = "create_user_destination_matrix" /\ call.error = None

(* the travel history of the user whose id is user_id *)
HistoryOf(users, user_id) ==
    UNION {users[r].travel_history : r \in {q \in DOMAIN users : users[q].user_id = user_id}}

(* C19: the matrix has only entries 0 and 1, and entry [i][j] is 1 exactly
   when the user whose id is user_ids[i] has the destination whose id is
   dest_ids[j] in their travel history, for distinct user ids in any order. *)
C19_MatrixMatchesIdArrays ==
    MatrixBuilt =>
        \A i \in DOMAIN call.interactions : \A j \in DOMAIN call.interactions[i] :
            /\ call.interactions[i][j] \in {0, 1}
            /\ call.interactions[i][j] = 1 <=>
                   call.dest_ids[j] \in HistoryOf(call.users, call.user_ids[i])

(* the same for user ids 1..n in that order *)
C19_MatchesForIdsInOrder ==
    (MatrixBuilt /\ \A i \in DOMAIN call.user_ids : call.user_ids[i] = i) =>
        \A i \in DOMAIN call.interactions : \A j \in DOMAIN call.interactions[i] :
            /\ call.interactions[i][j] \in {0, 1}
            /\ call.interactions[i][j] = 1 <=>
                   call.dest_ids[j] \in HistoryOf(call.users, call.user_ids[i])

-----------------------------------------------------------------------------
(* Equal blended scores *)

(* the blended scores the re-ranker of the call sorts by, by input position *)
BlendedScores ==
    [k \in DOMAIN call.recommendations |->
        IF call.op = "apply_sustainability_weighting"
        THEN ScorerWeightedScore(call.table, call.recommendations[k], k - 1,
                                 Len(call.recommendations), call.weight)
        ELSE WeightingWeightedScore(call.scheme, k - 1, Len(call.recommendations),
                                    RecSustainability(call.recommendations[k]),
                                    call.weight, DefaultThreshold)]

(* C20: the re-ranker's sort is stable: two candidates with equal blended
   scores come out in the relative order they had in the input list. *)
C20_StableForEqualScores ==
    (Reranked /\ call.error = None /\ call.recommendations # <<>>) =>
        \A i, j \in DOMAIN call.recommendations :
            (i < j /\ BlendedScores[i] = BlendedScores[j]) =>
                /\ RankOf(call.result, call.recommendations[i].destination_id) >= 1
                /\ RankOf(call.result, call.recommendations[i].destination_id)
                       < RankOf(call.result, call.recommendations[j].destination_id)

C20_Witness ==
    /\ call.op = "apply_sustainability_weighting" /\ call.error = None
    /\ Len(call.recommendations) = MaxLen
    /\ call.result # call.recommendations
    /\ \E i, j \in DOMAIN call.recommendations :
           /\ i < j /\ BlendedScores[i] = BlendedScores[j]
           /\ \E m \in DOMAIN call.recommendations :
                  m < i /\ BlendedScores[m] < BlendedScores[i]

-----------------------------------------------------------------------------
(* How many candidates come back *)

Least(a, b) == IF a < b THEN a ELSE b

(* the destinations a base recommender may list for the user of the call *)
Candidates ==
    IF call.exclude_visited THEN Dests \ Visited(call.user_id) ELSE Dests

(* C21: every base recommender removes the visited destinations before it
   truncates: asked for m candidates it returns exactly min(m, unvisited
   destinations) with exclude_visited and min(m, destinations) without; so
   the hybrid, which asks each for 2n, returns exactly n candidates whenever
   the user has at least n unvisited destinations. *)
C21_ExactCounts ==
    (call.op = "recommend" /\ call.error = None) =>
        /\ \A i \in DOMAIN call.lists :
               /\ Len(call.lists[i]) = Least(2 * call.n, Cardinality(Candidates))
               /\ SeqSet(DestIds(call.lists[i])) \subseteq Candidates
               /\ IsInjective(DestIds(call.lists[i]))
        /\ Cardinality(Dests \ Visited(call.user_id)) >= call.n =>
               Len(call.result) = call.n

C21_Witness ==
    /\ call.op = "recommend" /\ call.error = None /\ call.exclude_visited
    /\ call.n = MaxN /\ Len(call.result) = MaxN
    /\ Visited(call.user_id) # {}
    /\ call.recommenders = <<"ContentBasedRecommender", "UserBasedCF">>
    /\ \A i \in DOMAIN call.lists :
           Len(call.lists[i]) = Cardinality(Dests \ Visited(call.user_id))
    /\ Cardinality(Dests \ Visited(call.user_id)) < 2 * call.n

-----------------------------------------------------------------------------
(* The accumulated scores of the fusion *)

Fused == call.op = "recommend" /\ call.lists # <<>>

(* the keys of all_recommendations *)
FusedKeys == UNION {SeqSet(DestIds(call.lists[i])) : i \in DOMAIN call.lists}

(* all_recommendations[dest_id]["score"], as a numerator over AccumulatedDen *)
AccumulatedDen == FuseDen(call.weights, call.lists)

Accumulated(dest_id) == FuseScore(call.weights, call.lists, AccumulatedDen, dest_id)

(* C22: with the weights add_recommender stores, the accumulated score of
   every fused candidate is greater than 0 and at most 1, and no
   recommender lists a destination twice. *)
C22_AccumulatedScoreInUnitInterval ==
    Fused =>
        /\ \A d \in FusedKeys : Accumulated(d) > 0 /\ Accumulated(d) <= AccumulatedDen
        /\ \A i \in DOMAIN call.lists : IsInjective(DestIds(call.lists[i]))

C22_Witness ==
    /\ Fused /\ Len(call.lists) = MaxRecommenders
    /\ call.weights[1] # call.weights[2]
    /\ \E d \in FusedKeys : Accumulated(d) = AccumulatedDen
    /\ \E d \in FusedKeys :
           /\ Accumulated(d) < AccumulatedDen
           /\ \A i \in DOMAIN call.lists : d \in SeqSet(DestIds(call.lists[i]))

-----------------------------------------------------------------------------
(* What the evaluated recommender sees of the held-out interactions *)

(* the destinations of the scored entry that the training matrix shows as
   not visited *)
UnvisitedInTraining(entry) ==
    {d \in DOMAIN call.before[entry.user_id] :
        call.before[entry.user_id][d] = 0 \/ d \in entry.test_indices}

(* the held-out destinations are listed whenever k leaves room for every
   destination that training shows as not visited *)
HeldOutListed(entry) ==
    Cardinality(UnvisitedInTraining(entry)) <= call.k =>
        entry.test_indices \subseteq SeqSet(DestIds(entry.recs))

(* C23: in the window of evaluate_recommender the held-out interactions of
   the test user are hidden from the recommender: a held-out destination is
   not excluded as visited from the recommendations of that window, for a
   base recommender and for the hybrid. *)
C23_HeldOutNotExcluded ==
    Evaluated => \A e \in DOMAIN call.scored : HeldOutListed(call.scored[e])

(* the same for a base recommender only *)
C23_HeldOutNotExcludedByBase ==
    (Evaluated /\ call.target # "hybrid") =>
        \A e \in DOMAIN call.scored : HeldOutListed(call.scored[e])

C23_BaseWitness ==
    /\ Evaluated /\ call.target # "hybrid" /\ call.scored # <<>>
    /\ \E e \in DOMAIN call.scored :
           /\ Cardinality(UnvisitedInTraining(call.scored[e])) = call.k
           /\ call.scored[e].test_indices \subseteq SeqSet(DestIds(call.scored[e].recs))

-----------------------------------------------------------------------------
(* The stored weights and the weights given *)

(* the weights given to the add_recommender calls made so far *)
GivenWeights ==
    [i \in DOMAIN hybrid.weights |-> Frac(disk.build_weights[i], 10)]

(* C24: after add_recommender calls with positive weights w1..wk on an
   empty hybrid, the stored weight of recommender i is wi / (w1 + ... + wk);
   the default hybrid built with 0.1, 0.3, 0.3, 0.3 stores 1:3:3:3. *)
C24_StoredWeightIsShareOfGiven ==
    \A i \in DOMAIN hybrid.weights :
        hybrid.weights[i] = FracDiv(GivenWeights[i], FracSum(GivenWeights))

(* what does hold: the stored weights sum to 1 *)
C24_StoredWeightsSumToOne ==
    hybrid.weights # <<>> => FracSum(hybrid.weights) = <<1, 1>>

(* the default hybrid stores 1:3:3:3 *)
C24_DefaultProportion ==
    (disk.build_weights = DefaultWeights /\ Len(hybrid.weights) = Len(DefaultWeights)) =>
        hybrid.weights = <<Frac(1, 10), Frac(3, 10), Frac(3, 10), Frac(3, 10)>>

-----------------------------------------------------------------------------
(* The weight and the set of destinations returned *)

SustainabilityExplained ==
    call.op = "generate_sustainability_counterfactual" /\ call.outcome = "explanation"

(* C25: the set of destinations recommend returns does not depend on
   sustainability_weight, which only reorders the truncated list; so in the
   sustainability counterfactual a target found in the baseline run is found
   in the perturbed run, and the dropped-out outcome does not occur. *)
C25_WeightKeepsTheSet ==
    SustainabilityExplained =>
        /\ SeqSet(DestIds(call.counterfactual)) = SeqSet(DestIds(call.current))
        /\ Len(call.counterfactual) = Len(call.current)
        /\ call.counterfactual_rank >= 1
        /\ ~call.dropped_out

C25_Witness ==
    /\ SustainabilityExplained
    /\ call.before.sustainability_weight = 0 /\ call.target > 0
    /\ Len(call.current) >= 3
    /\ call.counterfactual # call.current
    /\ \E k \in DOMAIN call.current : call.current[k].sustainability_score = 0

(* the truncated list and the list returned hold the same destinations *)
C25_RerankKeepsTruncatedSet ==
    (call.op = "recommend" /\ call.error = None) =>
        SeqSet(DestIds(call.result)) = SeqSet(DestIds(call.fused))

-----------------------------------------------------------------------------
(* Counterfactuals on a feature of the destination or of the user *)

TableExplained ==
    /\ call.op \in {"generate_feature_counterfactual", "generate_user_counterfactual"}
    /\ call.outcome = "explanation"

(* C26: for a hybrid loaded through load_data, the feature and the user
   counterfactual report counterfactual_rank equal to current_rank, for
   every feature and target value: the re-run reads neither the hybrid's
   destinations nor its users attribute. *)
C26_TableOverridesChangeNothing ==
    (TableExplained /\ hybrid.loaded) =>
        /\ call.counterfactual_rank = call.current_rank
        /\ call.rank_change = 0
        /\ call.counterfactual = call.current

C26_Witness ==
    /\ call.op = "generate_feature_counterfactual" /\ call.outcome = "explanation"
    /\ hybrid.loaded
    /\ call.factor = "overall_sustainability_score"
    /\ call.before.sustainability_weight > 0
    /\ Len(call.current) >= 3
    /\ call.current_rank = 1
    /\ \E r \in DOMAIN call.before.destinations :
           /\ call.before.destinations[r].destination_id = call.dest_id
           /\ call.before.destinations[r].overall_sustainability_score # call.target

C26_UserWitness ==
    /\ call.op = "generate_user_counterfactual" /\ call.outcome = "explanation"
    /\ hybrid.loaded
    /\ call.after.users = call.before.users
    /\ Len(call.current) >= 3

-----------------------------------------------------------------------------
(* What the sustainability counterfactual reports *)

(* C27: the target destination is never in the moved_up or the moved_down
   list of its own sustainability counterfactual, whether its rank improved,
   worsened or stayed. *)
C27_TargetNotInMovedLists ==
    SustainabilityExplained =>
        /\ call.dest_id \notin SeqSet(call.moved_up)
        /\ call.dest_id \notin SeqSet(call.moved_down)

(* C28: the current_weight reported is the sustainability weight that was
   in effect on the recommender during the baseline run, for every
   configured weight and every sustainability_weight argument. *)
C28_ReportedWeightWasInEffect ==
    SustainabilityExplained => call.current_weight = call.before.sustainability_weight

-----------------------------------------------------------------------------
(* recommend and the fitted state *)

(* C29: recommend is read-only on fitted state: after any calls, the
   interaction matrix, the popularity scores and every entry of the
   similarity matrices of a fitted base recommender, the user-based one
   included, are what load_data and fit left. *)
C29_RecommendReadOnly ==
    /\ \A k \in Kinds : subs[k].fitted => subs[k] = FreshSub(k, disk)
    /\ hybrid.loaded => hybrid.interaction_matrix = disk.matrix

(* the same without the user-based similarity matrix *)
C29_ReadOnlyButUserSimilarity ==
    /\ \A k \in Kinds \ {"UserBasedCF"} : subs[k].fitted => subs[k] = FreshSub(k, disk)
    /\ subs["UserBasedCF"].fitted =>
           subs["UserBasedCF"].interaction_matrix = disk.matrix
    /\ hybrid.loaded => hybrid.interaction_matrix = disk.matrix

-----------------------------------------------------------------------------
(* Unanimous preference in the fusion *)

(* every list that has b has a at an earlier position *)
Unanimous(a, b) ==
    \A i \in DOMAIN call.lists :
        RankOf(call.lists[i], b) # 0 =>
            /\ RankOf(call.lists[i], a) # 0
            /\ RankOf(call.lists[i], a) < RankOf(call.lists[i], b)

(* C30: with all weights positive, when destination b is in some list and
   every list with b has destination a before it, the accumulated score of
   a is strictly greater than that of b and a precedes b in the fused
   order (call.fused, which is the order returned at sustainability
   weight 0), whenever b survives the truncation. *)
C30_UnanimousPreference ==
    Fused =>
        \A a, b \in FusedKeys :
            (a # b /\ Unanimous(a, b)) =>
                /\ Accumulated(a) > Accumulated(b)
                /\ RankOf(call.fused, b) # 0 =>
                       /\ RankOf(call.fused, a) # 0
                       /\ RankOf(call.fused, a) < RankOf(call.fused, b)

C30_Witness ==
    /\ Fused /\ Len(call.lists) = MaxRecommenders
    /\ call.lists[1] # call.lists[2]
    /\ call.weights[1] # call.weights[2]
    /\ \E a, b \in FusedKeys :
           /\ a # b /\ Unanimous(a, b)
           /\ \A i \in DOMAIN call.lists : RankOf(call.lists[i], b) # 0
           /\ RankOf(call.lists[1], a) # RankOf(call.lists[2], a)
           /\ RankOf(call.fused, b) # 0

====
